---- MODULE Spec2Model ----
(***************************************************************************)
(* PhysioAssistClient (docs/api/examples/python-integration.py): a facade  *)
(* over a requests.Session.  Each method builds one request, hands it to   *)
(* the session, and maps the response to a record.  The remote service is  *)
(* the environment; the client's state is api_key, base_url and the        *)
(* session headers.                                                        *)
(***************************************************************************)
EXTENDS Integers, Sequences, FiniteSets, TLC

\* Number of facade method calls a behaviour makes.
MaxCalls == 2

(***************************************************************************)
(* Python values.  Optional[T] is <<>> (None) or <<v>>; a dict is a        *)
(* function from its keys.                                                 *)
(***************************************************************************)
None == <<>>

Some(v) == <<v>>

EmptyDict == [k \in {} |-> 0]

Put(d, k, v) == [x \in (DOMAIN d) \cup {k} |-> IF x = k THEN v ELSE d[x]]

\* `if x:` on an Optional[int]: None and 0 are falsy.
TruthyInt(o) == o # None /\ o[1] # 0

\* `if x:` on an Optional[str] or Optional[str-Enum]: None and "" are falsy.
TruthyStr(o) == o # None /\ o[1] # ""

\* `if x is not None:`
IsNotNone(o) == o # None

(***************************************************************************)
(* Enumerations and defaults of the client.                                *)
(***************************************************************************)
ExerciseCategory == {"strength", "flexibility", "balance", "endurance",
                     "plyometric", "functional", "rehabilitation"}

PrescriptionStatus == {"active", "completed", "paused", "cancelled"}

DefaultBaseUrl == "https://api.physioassist.com/v1"

DefaultLimit == 50

DefaultOffset == 0

NoContent == 204

VARIABLES
  api_key,      \* self.api_key
  base_url,     \* self.base_url
  headers,      \* self.session.headers (the keys the constructor sets)
  ctor,         \* the constructor's arguments, as given
  store,        \* the service's prescriptions, by id
  wire,         \* the requests the service has received, in order
  calls,        \* the facade methods called so far, in order
  last,         \* the last call: arguments, request, response, outcome
  prev          \* the call before it: operation and outcome

vars == <<api_key, base_url, headers, ctor, store, wire, calls, last, prev>>

(***************************************************************************)
(* The HTTP exchange as the client sees it.                                *)
(***************************************************************************)
\* A request handed to the session: the session adds its headers to it.
Request(method, url, params, json) ==
  [method |-> method, url |-> url, params |-> params, json |-> json,
   headers |-> headers]

\* What the service keeps of a request: verb, address and headers.
Envelope(req) == [method |-> req.method, url |-> req.url, headers |-> req.headers]

\* A response: a status code and a body that is JSON (<<doc>>) or is not (None).
Response(status_code, body) == [ok |-> TRUE, status_code |-> status_code, body |-> body]

\* No response at all: the session call itself raises.
NoResponse == [ok |-> FALSE, status_code |-> 0, body |-> None]

Return(v) == [kind |-> "return", value |-> v]

Raise(e) == [kind |-> "raise", exc |-> e]

\* response.raise_for_status(): TRUE when it raises HTTPError.
raise_for_status(resp) ==
  resp.status_code >= 400 /\ resp.status_code < 600

(***************************************************************************)
(* Field mappings, one per method as in the source.                        *)
(***************************************************************************)
TemplateKeys == {"id", "name", "description", "category", "difficulty",
                 "bodyRegion", "primaryJoints", "estimatedDuration",
                 "recommendedReps", "recommendedSets", "patientInstructions",
                 "active"}

PrescriptionKeys == {"id", "templateId", "patientId", "therapistId",
                     "prescribedAt", "startDate", "reps", "sets",
                     "frequencyPerWeek", "status", "completionPercent"}

\* Variant of get_template's mapping: recommended reps and sets exchanged.
get_template_record_swapped(data) ==
  [id |-> data["id"], name |-> data["name"], description |-> data["description"],
   category |-> data["category"], difficulty |-> data["difficulty"],
   body_region |-> data["bodyRegion"], primary_joints |-> data["primaryJoints"],
   estimated_duration |-> data["estimatedDuration"],
   recommended_reps |-> data["recommendedSets"],
   recommended_sets |-> data["recommendedReps"],
   patient_instructions |-> data["patientInstructions"],
   active |-> data["active"]]

get_template_record(data) ==
  [id |-> data["id"], name |-> data["name"], description |-> data["description"],
   category |-> data["category"], difficulty |-> data["difficulty"],
   body_region |-> data["bodyRegion"], primary_joints |-> data["primaryJoints"],
   estimated_duration |-> data["estimatedDuration"],
   recommended_reps |-> data["recommendedReps"],
   recommended_sets |-> data["recommendedSets"],
   patient_instructions |-> data["patientInstructions"],
   active |-> data["active"]]

create_template_record(data) ==
  [id |-> data["id"], name |-> data["name"], description |-> data["description"],
   category |-> data["category"], difficulty |-> data["difficulty"],
   body_region |-> data["bodyRegion"], primary_joints |-> data["primaryJoints"],
   estimated_duration |-> data["estimatedDuration"],
   recommended_reps |-> data["recommendedReps"],
   recommended_sets |-> data["recommendedSets"],
   patient_instructions |-> data["patientInstructions"],
   active |-> data["active"]]

create_prescription_record(result) ==
  [id |-> result["id"], template_id |-> result["templateId"],
   patient_id |-> result["patientId"], therapist_id |-> result["therapistId"],
   prescribed_at |-> result["prescribedAt"], start_date |-> result["startDate"],
   reps |-> result["reps"], sets |-> result["sets"],
   frequency_per_week |-> result["frequencyPerWeek"],
   status |-> result["status"],
   completion_percent |-> result["completionPercent"]]

\* Variant of get_prescription's mapping: the two timestamps exchanged.
get_prescription_record_swapped(data) ==
  [id |-> data["id"], template_id |-> data["templateId"],
   patient_id |-> data["patientId"], therapist_id |-> data["therapistId"],
   prescribed_at |-> data["startDate"], start_date |-> data["prescribedAt"],
   reps |-> data["reps"], sets |-> data["sets"],
   frequency_per_week |-> data["frequencyPerWeek"],
   status |-> data["status"],
   completion_percent |-> data["completionPercent"]]

get_prescription_record(data) ==
  [id |-> data["id"], template_id |-> data["templateId"],
   patient_id |-> data["patientId"], therapist_id |-> data["therapistId"],
   prescribed_at |-> data["prescribedAt"], start_date |-> data["startDate"],
   reps |-> data["reps"], sets |-> data["sets"],
   frequency_per_week |-> data["frequencyPerWeek"],
   status |-> data["status"],
   completion_percent |-> data["completionPercent"]]

update_prescription_record(result) ==
  [id |-> result["id"], template_id |-> result["templateId"],
   patient_id |-> result["patientId"], therapist_id |-> result["therapistId"],
   prescribed_at |-> result["prescribedAt"], start_date |-> result["startDate"],
   reps |-> result["reps"], sets |-> result["sets"],
   frequency_per_week |-> result["frequencyPerWeek"],
   status |-> result["status"],
   completion_percent |-> result["completionPercent"]]

patient_prescription_record(p) ==
  [id |-> p["id"], template_id |-> p["templateId"],
   patient_id |-> p["patientId"], therapist_id |-> p["therapistId"],
   prescribed_at |-> p["prescribedAt"], start_date |-> p["startDate"],
   reps |-> p["reps"], sets |-> p["sets"],
   frequency_per_week |-> p["frequencyPerWeek"],
   status |-> p["status"],
   completion_percent |-> p["completionPercent"]]

(***************************************************************************)
(* What each method does with the response it got.                         *)
(***************************************************************************)
list_templates_return(resp) ==
  IF ~resp.ok THEN Raise("ConnectionError")
  ELSE IF raise_for_status(resp) THEN Raise("HTTPError")
  ELSE IF resp.body = None THEN Raise("JSONDecodeError")
  ELSE Return(resp.body[1])

get_template_return(resp) ==
  IF ~resp.ok THEN Raise("ConnectionError")
  ELSE IF raise_for_status(resp) THEN Raise("HTTPError")
  ELSE IF resp.body = None THEN Raise("JSONDecodeError")
  ELSE IF ~(TemplateKeys \subseteq DOMAIN resp.body[1]) THEN Raise("KeyError")
  ELSE Return(get_template_record(resp.body[1]))

create_template_return(resp) ==
  IF ~resp.ok THEN Raise("ConnectionError")
  ELSE IF raise_for_status(resp) THEN Raise("HTTPError")
  ELSE IF resp.body = None THEN Raise("JSONDecodeError")
  ELSE IF ~(TemplateKeys \subseteq DOMAIN resp.body[1]) THEN Raise("KeyError")
  ELSE Return(create_template_record(resp.body[1]))

create_prescription_return(resp) ==
  IF ~resp.ok THEN Raise("ConnectionError")
  ELSE IF raise_for_status(resp) THEN Raise("HTTPError")
  ELSE IF resp.body = None THEN Raise("JSONDecodeError")
  ELSE IF ~(PrescriptionKeys \subseteq DOMAIN resp.body[1]) THEN Raise("KeyError")
  ELSE Return(create_prescription_record(resp.body[1]))

get_prescription_return(resp) ==
  IF ~resp.ok THEN Raise("ConnectionError")
  ELSE IF raise_for_status(resp) THEN Raise("HTTPError")
  ELSE IF resp.body = None THEN Raise("JSONDecodeError")
  ELSE IF ~(PrescriptionKeys \subseteq DOMAIN resp.body[1]) THEN Raise("KeyError")
  ELSE Return(get_prescription_record(resp.body[1]))

\* Variant of update_prescription: the status is parsed into PrescriptionStatus,
\* which raises ValueError on a value outside the enumeration.
update_prescription_return_strict(resp) ==
  IF ~resp.ok THEN Raise("ConnectionError")
  ELSE IF raise_for_status(resp) THEN Raise("HTTPError")
  ELSE IF resp.body = None THEN Raise("JSONDecodeError")
  ELSE IF ~(PrescriptionKeys \subseteq DOMAIN resp.body[1]) THEN Raise("KeyError")
  ELSE IF resp.body[1]["status"] \notin PrescriptionStatus THEN Raise("ValueError")
  ELSE Return(update_prescription_record(resp.body[1]))

update_prescription_return(resp) ==
  IF ~resp.ok THEN Raise("ConnectionError")
  ELSE IF raise_for_status(resp) THEN Raise("HTTPError")
  ELSE IF resp.body = None THEN Raise("JSONDecodeError")
  ELSE IF ~(PrescriptionKeys \subseteq DOMAIN resp.body[1]) THEN Raise("KeyError")
  ELSE Return(update_prescription_record(resp.body[1]))

\* Variant of cancel_prescription: any 2xx status counts as success.
cancel_prescription_return_any_2xx(resp) ==
  IF ~resp.ok THEN Raise("ConnectionError")
  ELSE Return(resp.status_code >= 200 /\ resp.status_code < 300)

cancel_prescription_return(resp) ==
  IF ~resp.ok THEN Raise("ConnectionError")
  ELSE Return(resp.status_code = NoContent)

get_patient_prescriptions_return(resp) ==
  IF ~resp.ok THEN Raise("ConnectionError")
  ELSE IF raise_for_status(resp) THEN Raise("HTTPError")
  ELSE IF resp.body = None THEN Raise("JSONDecodeError")
  ELSE IF "prescriptions" \notin DOMAIN resp.body[1] THEN Raise("KeyError")
  ELSE LET ps == resp.body[1]["prescriptions"]
       IN IF \E i \in DOMAIN ps : ~(PrescriptionKeys \subseteq DOMAIN ps[i])
          THEN Raise("KeyError")
          ELSE Return([i \in DOMAIN ps |-> patient_prescription_record(ps[i])])

get_library_stats_return(resp) ==
  IF ~resp.ok THEN Raise("ConnectionError")
  ELSE IF raise_for_status(resp) THEN Raise("HTTPError")
  ELSE IF resp.body = None THEN Raise("JSONDecodeError")
  ELSE Return(resp.body[1])

(***************************************************************************)
(* The request each method builds from its arguments.                      *)
(***************************************************************************)
list_templates_params(category, difficulty_min, difficulty_max, search, limit, offset) ==
  LET p0 == Put(Put(EmptyDict, "limit", limit), "offset", offset)
      p1 == IF TruthyStr(category) THEN Put(p0, "category", category[1]) ELSE p0
      p2 == IF TruthyInt(difficulty_min)
            THEN Put(p1, "difficulty_min", difficulty_min[1]) ELSE p1
      p3 == IF TruthyInt(difficulty_max)
            THEN Put(p2, "difficulty_max", difficulty_max[1]) ELSE p2
  IN IF TruthyStr(search) THEN Put(p3, "search", search[1]) ELSE p3

list_templates_request(params) ==
  Request("GET", <<base_url, "templates">>, Some(params), None)

get_template_request(template_id) ==
  Request("GET", <<base_url, "templates", template_id>>, None, None)

create_template_request(template_data) ==
  Request("POST", <<base_url, "templates">>, None, Some(template_data))

create_prescription_data(template_id, patient_id, therapist_id, frequency_per_week, reps, sets, custom_instructions, primary_joint_focus) ==
  LET d0 == Put(Put(Put(Put(EmptyDict, "templateId", template_id),
                        "patientId", patient_id),
                    "therapistId", therapist_id),
                "frequencyPerWeek", frequency_per_week)
      d1 == IF TruthyInt(reps) THEN Put(d0, "reps", reps[1]) ELSE d0
      d2 == IF TruthyInt(sets) THEN Put(d1, "sets", sets[1]) ELSE d1
      d3 == IF TruthyStr(custom_instructions)
            THEN Put(d2, "customInstructions", custom_instructions[1]) ELSE d2
  IN IF TruthyStr(primary_joint_focus)
     THEN Put(d3, "primaryJointFocus", primary_joint_focus[1]) ELSE d3

create_prescription_request(data) ==
  Request("POST", <<base_url, "prescriptions">>, None, Some(data))

get_prescription_request(prescription_id) ==
  Request("GET", <<base_url, "prescriptions", prescription_id>>, None, None)

update_prescription_data(status, completion_percent, therapist_notes) ==
  LET d1 == IF TruthyStr(status) THEN Put(EmptyDict, "status", status[1])
            ELSE EmptyDict
      d2 == IF IsNotNone(completion_percent)
            THEN Put(d1, "completionPercent", completion_percent[1]) ELSE d1
  IN IF TruthyStr(therapist_notes)
     THEN Put(d2, "therapistNotes", therapist_notes[1]) ELSE d2

update_prescription_request(prescription_id, data) ==
  Request("PATCH", <<base_url, "prescriptions", prescription_id>>, None, Some(data))

\* Variant of cancel_prescription: addressed to the default endpoint.
cancel_prescription_request_default_url(prescription_id) ==
  Request("DELETE", <<DefaultBaseUrl, "prescriptions", prescription_id>>, None, None)

cancel_prescription_request(prescription_id) ==
  Request("DELETE", <<base_url, "prescriptions", prescription_id>>, None, None)

get_patient_prescriptions_params(status, limit, offset) ==
  LET p0 == Put(Put(EmptyDict, "limit", limit), "offset", offset)
  IN IF TruthyStr(status) THEN Put(p0, "status", status[1]) ELSE p0

get_patient_prescriptions_request(patient_id, params) ==
  Request("GET", <<base_url, "patients", patient_id, "prescriptions">>,
          Some(params), None)

get_library_stats_request ==
  Request("GET", <<base_url, "library", "stats">>, None, None)

(***************************************************************************)
(* The remote service: it keeps what it creates and answers from what it   *)
(* keeps.  It owns ids, timestamps, defaults and the status vocabulary.    *)
(***************************************************************************)
ServerClock == 1700000000

ServerStartDelay == 86400

ServerDefaultReps == 10

ServerDefaultSets == 4

HttpOk == 200

HttpCreated == 201

HttpAccepted == 202

HttpMultipleChoices == 300

HttpNotModified == 304

HttpNotFound == 404

HttpServerError == 500

RxIds == <<"rx_0", "rx_1", "rx_2", "rx_3", "rx_4">>

NewTemplateIds == <<"template_new_1", "template_new_2", "template_new_3",
                    "template_new_4">>

ErrorDoc == [error |-> "failed"]

TemplateDoc(id, category) ==
  [id |-> id, name |-> "Shoulder Press", description |-> "Overhead press",
   category |-> category, difficulty |-> 2, bodyRegion |-> "upper_body",
   primaryJoints |-> <<"shoulder", "elbow">>, estimatedDuration |-> 300,
   recommendedReps |-> 12, recommendedSets |-> 3,
   patientInstructions |-> "Press slowly", active |-> TRUE]

\* A document of an older schema: no patientInstructions key.
LegacyTemplateDoc ==
  [k \in TemplateKeys \ {"patientInstructions"} |->
     TemplateDoc("template_old", "balance")[k]]

InitialTemplates ==
  [id \in {"template_123", "template_777", "template_old"} |->
     CASE id = "template_123" -> TemplateDoc(id, "strength")
       [] id = "template_777" -> TemplateDoc(id, "aquatic")
       [] OTHER -> LegacyTemplateDoc]

InitialPrescriptions ==
  [id \in {"rx_0"} |->
     [id |-> "rx_0", templateId |-> "template_777", patientId |-> "patient_456",
      therapistId |-> "therapist_789", prescribedAt |-> ServerClock - 1,
      startDate |-> ServerClock, reps |-> 8, sets |-> 2, frequencyPerWeek |-> 5,
      status |-> "on_hold", completionPercent |-> 40]]

InitialStore == [tpl |-> InitialTemplates, rx |-> InitialPrescriptions]

Route(req) ==
  LET u == req.url
      m == req.method
  IN CASE m = "GET" /\ Len(u) = 2 /\ u[2] = "templates" -> "list_templates"
       [] m = "GET" /\ Len(u) = 3 /\ u[2] = "templates" -> "get_template"
       [] m = "POST" /\ Len(u) = 2 /\ u[2] = "templates" -> "create_template"
       [] m = "POST" /\ Len(u) = 2 /\ u[2] = "prescriptions" -> "create_prescription"
       [] m = "GET" /\ Len(u) = 3 /\ u[2] = "prescriptions" -> "get_prescription"
       [] m = "PATCH" /\ Len(u) = 3 /\ u[2] = "prescriptions" -> "update_prescription"
       [] m = "DELETE" /\ Len(u) = 3 /\ u[2] = "prescriptions" -> "cancel_prescription"
       [] m = "GET" /\ Len(u) = 4 /\ u[2] = "patients" /\ u[4] = "prescriptions"
            -> "get_patient_prescriptions"
       [] m = "GET" /\ Len(u) = 3 /\ u[2] = "library" /\ u[3] = "stats"
            -> "get_library_stats"
       [] OTHER -> "unrouted"

Reply(status_code, body, st) == [resp |-> Response(status_code, body), store |-> st]

\* Replies any request can get: no response, a server error, a bodiless 304.
Failures(st) ==
  {[resp |-> NoResponse, store |-> st],
   Reply(HttpServerError, Some(ErrorDoc), st),
   Reply(HttpNotModified, None, st)}

\* A read: the document with 200, or the same document under a 300.
Reads(doc, st) ==
  {Reply(HttpOk, Some(doc), st), Reply(HttpMultipleChoices, Some(doc), st)}

NotFound(st) == {Reply(HttpNotFound, Some(ErrorDoc), st)}

ServeListTemplates(st, req) ==
  LET q == req.params[1]
      all == <<"template_123", "template_777">>
      hit(id) == "category" \notin DOMAIN q \/ st.tpl[id]["category"] = q["category"]
      ids == SelectSeq(all, hit)
      n == IF Len(ids) < q["limit"] THEN Len(ids) ELSE q["limit"]
  IN Reads([total |-> Len(ids),
            templates |-> [i \in 1..n |-> st.tpl[ids[i]]]], st)

ServeGetTemplate(st, req) ==
  IF req.url[3] \in DOMAIN st.tpl THEN Reads(st.tpl[req.url[3]], st)
  ELSE NotFound(st)

ServeCreateTemplate(st, req) ==
  LET n == Cardinality(DOMAIN st.tpl) - Cardinality(DOMAIN InitialTemplates)
      id == NewTemplateIds[n + 1]
      doc == Put(Put(req.json[1], "id", id), "active", TRUE)
  IN {Reply(HttpCreated, Some(doc), [st EXCEPT !.tpl = Put(st.tpl, id, doc)])}

ServeCreatePrescription(st, req) ==
  LET b == req.json[1]
      id == RxIds[Cardinality(DOMAIN st.rx) + 1]
      doc == [id |-> id, templateId |-> b["templateId"],
              patientId |-> b["patientId"], therapistId |-> b["therapistId"],
              prescribedAt |-> ServerClock,
              startDate |-> ServerClock + ServerStartDelay,
              reps |-> IF "reps" \in DOMAIN b THEN b["reps"] ELSE ServerDefaultReps,
              sets |-> IF "sets" \in DOMAIN b THEN b["sets"] ELSE ServerDefaultSets,
              frequencyPerWeek |-> b["frequencyPerWeek"],
              status |-> "active", completionPercent |-> 0]
  IN {Reply(HttpCreated, Some(doc), [st EXCEPT !.rx = Put(st.rx, id, doc)])}

ServeGetPrescription(st, req) ==
  IF req.url[3] \in DOMAIN st.rx THEN Reads(st.rx[req.url[3]], st)
  ELSE NotFound(st)

\* A PATCH: the service applies the fields sent; a status it does not accept
\* leaves the record's status as it was.
ServeUpdatePrescription(st, req) ==
  LET id == req.url[3]
      b == req.json[1]
  IN IF id \notin DOMAIN st.rx THEN NotFound(st)
     ELSE LET old == st.rx[id]
              pct == IF "completionPercent" \in DOMAIN b
                     THEN [old EXCEPT !["completionPercent"] = b["completionPercent"]]
                     ELSE old
              docs == {pct} \cup
                      (IF "status" \in DOMAIN b
                       THEN {[pct EXCEPT !["status"] = b["status"]]} ELSE {})
          IN {Reply(HttpOk, Some(doc), [st EXCEPT !.rx = Put(st.rx, id, doc)]) :
                doc \in docs}

\* A DELETE: 204, or a 200 carrying the cancelled record, or a 202.
ServeCancelPrescription(st, req) ==
  LET id == req.url[3]
  IN IF id \notin DOMAIN st.rx THEN NotFound(st)
     ELSE LET doc == [st.rx[id] EXCEPT !["status"] = "cancelled"]
              st2 == [st EXCEPT !.rx = Put(st.rx, id, doc)]
          IN {Reply(NoContent, None, st2), Reply(HttpOk, Some(doc), st2),
              Reply(HttpAccepted, None, st)}

ServeGetPatientPrescriptions(st, req) ==
  LET q == req.params[1]
      hit(id) == /\ id \in DOMAIN st.rx
                 /\ st.rx[id]["patientId"] = req.url[3]
                 /\ ("status" \notin DOMAIN q \/ st.rx[id]["status"] = q["status"])
      ids == SelectSeq(RxIds, hit)
      n == IF Len(ids) < q["limit"] THEN Len(ids) ELSE q["limit"]
  IN Reads([prescriptions |-> [i \in 1..n |-> st.rx[ids[i]]]], st)

ServeGetLibraryStats(st) ==
  LET ids == DOMAIN st.tpl
  IN Reads([totalTemplates |-> Cardinality(ids),
            activeCount |-> Cardinality({id \in ids : st.tpl[id]["active"]}),
            byCategory |-> [c \in {st.tpl[id]["category"] : id \in ids} |->
                              Cardinality({id \in ids : st.tpl[id]["category"] = c})]],
           st)

Serve(st, req) ==
  Failures(st) \cup
  CASE Route(req) = "list_templates" -> ServeListTemplates(st, req)
    [] Route(req) = "get_template" -> ServeGetTemplate(st, req)
    [] Route(req) = "create_template" -> ServeCreateTemplate(st, req)
    [] Route(req) = "create_prescription" -> ServeCreatePrescription(st, req)
    [] Route(req) = "get_prescription" -> ServeGetPrescription(st, req)
    [] Route(req) = "update_prescription" -> ServeUpdatePrescription(st, req)
    [] Route(req) = "cancel_prescription" -> ServeCancelPrescription(st, req)
    [] Route(req) = "get_patient_prescriptions" -> ServeGetPatientPrescriptions(st, req)
    [] Route(req) = "get_library_stats" -> ServeGetLibraryStats(st)
    [] OTHER -> NotFound(st)

(***************************************************************************)
(* The session call a method makes: the request goes out once and the      *)
(* method gets whatever came back.                                         *)
(***************************************************************************)
\* Variant of the session call: a failed exchange is sent a second time.
session_send_retry(w, st, req) ==
  LET failed(r) == ~r.resp.ok \/ r.resp.status_code >= 500
  IN {[wire |-> Append(w, Envelope(req)), resp |-> r.resp, store |-> r.store] :
        r \in {x \in Serve(st, req) : ~failed(x)}}
     \cup
     UNION {{[wire |-> Append(Append(w, Envelope(req)), Envelope(req)),
              resp |-> r2.resp, store |-> r2.store] : r2 \in Serve(r.store, req)} :
              r \in {x \in Serve(st, req) : failed(x)}}

session_send(w, st, req) ==
  {[wire |-> Append(w, Envelope(req)), resp |-> r.resp, store |-> r.store] :
     r \in Serve(st, req)}

(***************************************************************************)
(* Construction.                                                           *)
(***************************************************************************)
CtorArgs ==
  {[api_key |-> "key_A", base_url |-> None],
   [api_key |-> "key_B", base_url |-> Some("http://localhost:8080/v1")]}

init_base_url(arg) == IF arg = None THEN DefaultBaseUrl ELSE arg[1]

init_headers(key) ==
  Put(Put(EmptyDict, "X-API-Key", key), "Content-Type", "application/json")

NoCall ==
  [op |-> "none", args |-> None, request |-> None, response |-> NoResponse,
   outcome |-> Raise("none")]

Init ==
  /\ ctor \in CtorArgs
  /\ api_key = ctor.api_key
  /\ base_url = init_base_url(ctor.base_url)
  /\ headers = init_headers(ctor.api_key)
  /\ store = InitialStore
  /\ wire = <<>>
  /\ calls = <<>>
  /\ last = NoCall
  /\ prev = [op |-> "none", outcome |-> Raise("none")]

(***************************************************************************)
(* Arguments the caller passes: every combination of an optional argument  *)
(* omitted or given its usual value, and calls that give 0 or "".          *)
(***************************************************************************)
ListTemplatesArgs ==
  [category : {None, Some("strength")}, difficulty_min : {None, Some(2)},
   difficulty_max : {None}, search : {None, Some("shoulder")},
   limit : {DefaultLimit}, offset : {DefaultOffset}]
  \cup
  {[category |-> Some("strength"), difficulty_min |-> None,
    difficulty_max |-> None, search |-> Some("shoulder"), limit |-> 10,
    offset |-> DefaultOffset],
   [category |-> None, difficulty_min |-> Some(0), difficulty_max |-> Some(5),
    search |-> None, limit |-> 1, offset |-> DefaultOffset],
   [category |-> None, difficulty_min |-> Some(1), difficulty_max |-> Some(0),
    search |-> Some(""), limit |-> DefaultLimit, offset |-> 20]}

TemplateIdArgs == {"template_123", "template_777", "template_old", "template_404"}

TemplatePayloads ==
  {[k \in TemplateKeys \ {"id", "active"} |-> TemplateDoc("", c)[k]] :
     c \in {"flexibility", "hydrotherapy"}}

CreatePrescriptionArgs ==
  [template_id : {"template_123"}, patient_id : {"patient_456"},
   therapist_id : {"therapist_789"}, frequency_per_week : {3},
   reps : {None, Some(12)}, sets : {None, Some(3)},
   custom_instructions : {None, Some("Stop if pain exceeds 3/10.")},
   primary_joint_focus : {None}]
  \cup
  {[template_id |-> "template_123", patient_id |-> "patient_456",
    therapist_id |-> "therapist_789", frequency_per_week |-> 3,
    reps |-> Some(12), sets |-> Some(3),
    custom_instructions |-> Some("Stop if pain exceeds 3/10."),
    primary_joint_focus |-> Some("shoulder")],
   [template_id |-> "template_123", patient_id |-> "patient_456",
    therapist_id |-> "therapist_789", frequency_per_week |-> 3,
    reps |-> Some(0), sets |-> None, custom_instructions |-> None,
    primary_joint_focus |-> None],
   [template_id |-> "template_123", patient_id |-> "patient_456",
    therapist_id |-> "therapist_789", frequency_per_week |-> 3,
    reps |-> None, sets |-> Some(0), custom_instructions |-> Some(""),
    primary_joint_focus |-> Some("")]}

PrescriptionIdArgs == {"rx_0", "rx_1"}

UpdatePrescriptionArgs ==
  [prescription_id : {"rx_0"}, status : {None, Some("paused")},
   completion_percent : {None, Some(75)},
   therapist_notes : {None, Some("Progressing well.")}]
  \cup
  {[prescription_id |-> "rx_1", status |-> Some("completed"),
    completion_percent |-> Some(100), therapist_notes |-> None],
   [prescription_id |-> "rx_0", status |-> None,
    completion_percent |-> Some(0), therapist_notes |-> None],
   [prescription_id |-> "rx_0", status |-> None,
    completion_percent |-> None, therapist_notes |-> Some("")]}

GetPatientPrescriptionsArgs ==
  [patient_id : {"patient_456"}, status : {None, Some("active")},
   limit : {DefaultLimit}, offset : {DefaultOffset}]

\* The call ends: the exchange is over and its outcome is the caller's.
Complete(op, args, req, ex, outcome) ==
  /\ wire' = ex.wire
  /\ store' = ex.store
  /\ calls' = Append(calls, op)
  /\ prev' = [op |-> last.op, outcome |-> last.outcome]
  /\ last' = [op |-> op, args |-> args, request |-> req, response |-> ex.resp,
              outcome |-> outcome]
  /\ UNCHANGED <<api_key, base_url, headers, ctor>>

list_templates ==
  /\ Len(calls) < MaxCalls
  /\ \E a \in ListTemplatesArgs :
       LET params == list_templates_params(a.category, a.difficulty_min,
                       a.difficulty_max, a.search, a.limit, a.offset)
           req == list_templates_request(params)
       IN \E ex \in session_send(wire, store, req) :
            Complete("list_templates", a, req, ex, list_templates_return(ex.resp))

get_template ==
  /\ Len(calls) < MaxCalls
  /\ \E template_id \in TemplateIdArgs :
       LET req == get_template_request(template_id)
       IN \E ex \in session_send(wire, store, req) :
            Complete("get_template", [template_id |-> template_id], req, ex,
                     get_template_return(ex.resp))

create_template ==
  /\ Len(calls) < MaxCalls
  /\ \E template_data \in TemplatePayloads :
       LET req == create_template_request(template_data)
       IN \E ex \in session_send(wire, store, req) :
            Complete("create_template", [template_data |-> template_data], req, ex,
                     create_template_return(ex.resp))

create_prescription ==
  /\ Len(calls) < MaxCalls
  /\ \E a \in CreatePrescriptionArgs :
       LET data == create_prescription_data(a.template_id, a.patient_id,
                     a.therapist_id, a.frequency_per_week, a.reps, a.sets,
                     a.custom_instructions, a.primary_joint_focus)
           req == create_prescription_request(data)
       IN \E ex \in session_send(wire, store, req) :
            Complete("create_prescription", a, req, ex,
                     create_prescription_return(ex.resp))

get_prescription ==
  /\ Len(calls) < MaxCalls
  /\ \E prescription_id \in PrescriptionIdArgs :
       LET req == get_prescription_request(prescription_id)
       IN \E ex \in session_send(wire, store, req) :
            Complete("get_prescription", [prescription_id |-> prescription_id],
                     req, ex, get_prescription_return(ex.resp))

update_prescription ==
  /\ Len(calls) < MaxCalls
  /\ \E a \in UpdatePrescriptionArgs :
       LET data == update_prescription_data(a.status, a.completion_percent,
                                            a.therapist_notes)
           req == update_prescription_request(a.prescription_id, data)
       IN \E ex \in session_send(wire, store, req) :
            Complete("update_prescription", a, req, ex,
                     update_prescription_return(ex.resp))

cancel_prescription ==
  /\ Len(calls) < MaxCalls
  /\ \E prescription_id \in PrescriptionIdArgs :
       LET req == cancel_prescription_request(prescription_id)
       IN \E ex \in session_send(wire, store, req) :
            Complete("cancel_prescription", [prescription_id |-> prescription_id],
                     req, ex, cancel_prescription_return(ex.resp))

get_patient_prescriptions ==
  /\ Len(calls) < MaxCalls
  /\ \E a \in GetPatientPrescriptionsArgs :
       LET params == get_patient_prescriptions_params(a.status, a.limit, a.offset)
           req == get_patient_prescriptions_request(a.patient_id, params)
       IN \E ex \in session_send(wire, store, req) :
            Complete("get_patient_prescriptions", a, req, ex,
                     get_patient_prescriptions_return(ex.resp))

get_library_stats ==
  /\ Len(calls) < MaxCalls
  /\ LET req == get_library_stats_request
     IN \E ex \in session_send(wire, store, req) :
          Complete("get_library_stats", None, req, ex,
                   get_library_stats_return(ex.resp))

Next ==
  \/ list_templates
  \/ get_template
  \/ create_template
  \/ create_prescription
  \/ get_prescription
  \/ update_prescription
  \/ cancel_prescription
  \/ get_patient_prescriptions
  \/ get_library_stats

Spec == Init /\ [][Next]_vars

(***************************************************************************)
(* Properties.                                                             *)
(***************************************************************************)
Is2xx(resp) == resp.ok /\ resp.status_code >= 200 /\ resp.status_code < 300

\* C1: cancel_prescription returns true exactly when the response's status
\* code is 204; for every response it returns (false for any other status,
\* other 2xx included) and does not raise; it raises only when no response
\* was obtained.
C1_CancelTrueIff204 ==
  last.op = "cancel_prescription" =>
    IF last.response.ok
    THEN /\ last.outcome.kind = "return"
         /\ last.outcome.value <=> (last.response.status_code = 204)
    ELSE last.outcome.kind = "raise"

\* A cancel answered 204 returned true, and the next cancel, answered 200,
\* returned false.
C1_Witness ==
  /\ prev.op = "cancel_prescription"
  /\ prev.outcome = Return(TRUE)
  /\ last.op = "cancel_prescription"
  /\ last.response.ok
  /\ last.response.status_code = 200
  /\ last.outcome = Return(FALSE)

\* C2: for every method but cancel_prescription, a response whose status is
\* outside 2xx ends the call in an HTTP status error, and a record or page
\* is returned only for a 2xx status.
C2_NonSuccessStatusIsHttpError ==
  (last.op \notin {"none", "cancel_prescription"} /\ last.response.ok) =>
    /\ ~Is2xx(last.response) => last.outcome = Raise("HTTPError")
    /\ last.outcome.kind = "return" => Is2xx(last.response)

\* C3: create_prescription's body has the four required keys and the key of
\* each optional argument exactly when that argument is not None (0 and ""
\* included), each value being the argument's.
C3_CreateBodyHasExactlySuppliedKeys ==
  last.op = "create_prescription" =>
    LET a == last.args
        b == last.request.json[1]
    IN /\ DOMAIN b = {"templateId", "patientId", "therapistId", "frequencyPerWeek"}
                     \cup (IF a.reps # None THEN {"reps"} ELSE {})
                     \cup (IF a.sets # None THEN {"sets"} ELSE {})
                     \cup (IF a.custom_instructions # None
                           THEN {"customInstructions"} ELSE {})
                     \cup (IF a.primary_joint_focus # None
                           THEN {"primaryJointFocus"} ELSE {})
       /\ b["templateId"] = a.template_id
       /\ b["patientId"] = a.patient_id
       /\ b["therapistId"] = a.therapist_id
       /\ b["frequencyPerWeek"] = a.frequency_per_week
       /\ a.reps # None => b["reps"] = a.reps[1]
       /\ a.sets # None => b["sets"] = a.sets[1]
       /\ a.custom_instructions # None =>
            b["customInstructions"] = a.custom_instructions[1]
       /\ a.primary_joint_focus # None =>
            b["primaryJointFocus"] = a.primary_joint_focus[1]

\* C4: update_prescription's PATCH body has exactly the supplied fields
\* (status, completionPercent also for 0, therapistNotes also for ""), and
\* the record returned is the one in the response.
C4_UpdateBodyHasExactlySuppliedKeys ==
  last.op = "update_prescription" =>
    LET a == last.args
        b == last.request.json[1]
    IN /\ DOMAIN b = (IF a.status # None THEN {"status"} ELSE {})
                     \cup (IF a.completion_percent # None
                           THEN {"completionPercent"} ELSE {})
                     \cup (IF a.therapist_notes # None
                           THEN {"therapistNotes"} ELSE {})
       /\ a.status # None => b["status"] = a.status[1]
       /\ a.completion_percent # None =>
            b["completionPercent"] = a.completion_percent[1]
       /\ a.therapist_notes # None => b["therapistNotes"] = a.therapist_notes[1]
       /\ last.outcome.kind = "return" =>
            /\ last.outcome.value.id = last.response.body[1]["id"]
            /\ last.outcome.value.status = last.response.body[1]["status"]
            /\ last.outcome.value.completion_percent =
                 last.response.body[1]["completionPercent"]

\* C5: list_templates always sends limit and offset, sends category,
\* difficulty_min, difficulty_max and search exactly when supplied (a bound
\* of 0 and an empty search included) and nothing else, and returns the
\* service's page unchanged.
C5_ListParamsAreExactlySupplied ==
  last.op = "list_templates" =>
    LET a == last.args
        q == last.request.params[1]
    IN /\ DOMAIN q = {"limit", "offset"}
                     \cup (IF a.category # None THEN {"category"} ELSE {})
                     \cup (IF a.difficulty_min # None THEN {"difficulty_min"} ELSE {})
                     \cup (IF a.difficulty_max # None THEN {"difficulty_max"} ELSE {})
                     \cup (IF a.search # None THEN {"search"} ELSE {})
       /\ q["limit"] = a.limit
       /\ q["offset"] = a.offset
       /\ a.category # None => q["category"] = a.category[1]
       /\ a.difficulty_min # None => q["difficulty_min"] = a.difficulty_min[1]
       /\ a.difficulty_max # None => q["difficulty_max"] = a.difficulty_max[1]
       /\ a.search # None => q["search"] = a.search[1]
       /\ last.outcome.kind = "return" =>
            last.outcome.value["total"] = last.response.body[1]["total"]

C7_TemplateFieldsEqualJson ==
  (last.op \in {"get_template", "create_template"} /\ last.outcome.kind = "return") =>
    LET r == last.outcome.value
        d == last.response.body[1]
    IN /\ DOMAIN r = {"id", "name", "description", "category", "difficulty",
                      "body_region", "primary_joints", "estimated_duration",
                      "recommended_reps", "recommended_sets",
                      "patient_instructions", "active"}
       /\ r.id = d["id"]
       /\ r.name = d["name"]
       /\ r.description = d["description"]
       /\ r.category = d["category"]
       /\ r.difficulty = d["difficulty"]
       /\ r.body_region = d["bodyRegion"]
       /\ r.primary_joints = d["primaryJoints"]
       /\ r.estimated_duration = d["estimatedDuration"]
       /\ r.recommended_reps = d["recommendedReps"]
       /\ r.recommended_sets = d["recommendedSets"]
       /\ r.patient_instructions = d["patientInstructions"]
       /\ r.active = d["active"]

\* create_template returned a record and then get_template returned one.
C7_Witness ==
  /\ prev.op = "create_template"
  /\ prev.outcome.kind = "return"
  /\ last.op = "get_template"
  /\ last.outcome.kind = "return"
  /\ last.outcome.value.recommended_reps = 12
  /\ last.outcome.value.recommended_sets = 3

\* C8: the record create_prescription returned and the record an immediately
\* following get_prescription of the returned id returns are identical in
\* every field.
C8_CreateThenGetRoundTrip ==
  (/\ prev.op = "create_prescription"
   /\ prev.outcome.kind = "return"
   /\ last.op = "get_prescription"
   /\ last.outcome.kind = "return"
   /\ last.args.prescription_id = prev.outcome.value.id) =>
    /\ last.outcome.value = prev.outcome.value
    /\ DOMAIN last.outcome.value =
         {"id", "template_id", "patient_id", "therapist_id", "prescribed_at",
          "start_date", "reps", "sets", "frequency_per_week", "status",
          "completion_percent"}

\* A prescription was created and then fetched by the id returned.
C8_Witness ==
  /\ prev.op = "create_prescription"
  /\ prev.outcome.kind = "return"
  /\ last.op = "get_prescription"
  /\ last.outcome.kind = "return"
  /\ last.args.prescription_id = prev.outcome.value.id
  /\ last.outcome.value.reps = 12

\* C9: api_key, base_url and the session headers stay as construction set
\* them, and every request sent carries X-API-Key equal to the constructor's
\* api_key and Content-Type application/json and is addressed under the
\* constructor's base_url (the default one when none was given).
C9_SessionUnchanged ==
  LET base == IF ctor.base_url = None THEN "https://api.physioassist.com/v1"
              ELSE ctor.base_url[1]
      sent(h) == /\ DOMAIN h = {"X-API-Key", "Content-Type"}
                 /\ h["X-API-Key"] = ctor.api_key
                 /\ h["Content-Type"] = "application/json"
  IN /\ api_key = ctor.api_key
     /\ base_url = base
     /\ sent(headers)
     /\ \A i \in DOMAIN wire : sent(wire[i].headers) /\ wire[i].url[1] = base

\* A client built with its own base_url: a call failed and a cancel followed.
C9_Witness ==
  /\ ctor.base_url # None
  /\ Len(wire) = 2
  /\ prev.op # "none"
  /\ prev.outcome.kind = "raise"
  /\ last.op = "cancel_prescription"

\* C10: a 2xx response with a complete document is never refused for its
\* vocabulary: the status (the category, for a template) of the record
\* returned is the string in the response, whether or not it is a member of
\* the client's enumerations or the status the call asked for.
C10_ServerVocabularyPassedThrough ==
  LET resp == last.response
      whole(d, keys) == keys \subseteq DOMAIN d
  IN (Is2xx(resp) /\ resp.body # None) =>
       /\ (/\ last.op \in {"create_prescription", "get_prescription",
                           "update_prescription"}
           /\ whole(resp.body[1], PrescriptionKeys)) =>
            /\ last.outcome.kind = "return"
            /\ last.outcome.value.status = resp.body[1]["status"]
       /\ (/\ last.op = "get_patient_prescriptions"
           /\ "prescriptions" \in DOMAIN resp.body[1]
           /\ \A i \in DOMAIN resp.body[1]["prescriptions"] :
                whole(resp.body[1]["prescriptions"][i], PrescriptionKeys)) =>
            /\ last.outcome.kind = "return"
            /\ Len(last.outcome.value) = Len(resp.body[1]["prescriptions"])
            /\ \A i \in DOMAIN last.outcome.value :
                 last.outcome.value[i].status =
                   resp.body[1]["prescriptions"][i]["status"]
       /\ (/\ last.op \in {"get_template", "create_template"}
           /\ whole(resp.body[1], TemplateKeys)) =>
            /\ last.outcome.kind = "return"
            /\ last.outcome.value.category = resp.body[1]["category"]

\* update_prescription asked for "paused" and returned the service's status,
\* which is neither "paused" nor a member of PrescriptionStatus.
C10_Witness ==
  /\ last.op = "update_prescription"
  /\ last.args.status = Some("paused")
  /\ last.outcome.kind = "return"
  /\ last.outcome.value.status \notin PrescriptionStatus
  /\ last.outcome.value.status # "paused"

====
